---- MODULE Spec2Model ----
(***************************************************************************)
(* Model of build.py: a command-line front-end that parses five optional   *)
(* flags, optionally runs a CMake configure command, always runs a CMake   *)
(* build command, and streams each child's combined output to the console  *)
(* one line at a time.                                                     *)
(*                                                                         *)
(* Strings are TLA+ strings; command lines are sequences of tokens that    *)
(* are joined with single blanks exactly as " ".join(arguments) does.      *)
(***************************************************************************)
EXTENDS Integers, Sequences, FiniteSets, TLC

(***************************************************************************)
(* Bounds of the exploration.                                              *)
(***************************************************************************)
\* longest command line (number of tokens after the script name)
MaxArgs == 2
\* most write() calls a child makes on its stdout/stderr pipe
MaxWrites == 2

(***************************************************************************)
(* String helpers (Python str methods used by the script and by argparse). *)
(***************************************************************************)
Char(s, i) == SubSeq(s, i, i)

StartsWith(s, p) == Len(s) >= Len(p) /\ SubSeq(s, 1, Len(p)) = p

\* str.find(c) + 1 for a one-character c: first index of c in s, 0 if absent
RECURSIVE FindFrom(_, _, _)
FindFrom(s, c, i) ==
    IF i > Len(s) THEN 0
    ELSE IF Char(s, i) = c THEN i
    ELSE FindFrom(s, c, i + 1)

Find(s, c) == FindFrom(s, c, 1)

\* line.rstrip("\n"): drop every trailing newline character
RECURSIVE RStripNewline(_)
RStripNewline(s) ==
    IF Len(s) > 0 /\ Char(s, Len(s)) = "\n"
    THEN RStripNewline(SubSeq(s, 1, Len(s) - 1))
    ELSE s

\* " ".join(tokens)
RECURSIVE Join(_)
Join(tokens) ==
    IF Len(tokens) = 0 THEN ""
    ELSE IF Len(tokens) = 1 THEN tokens[1]
    ELSE tokens[1] \o " " \o Join(Tail(tokens))

Digits == <<"0", "1", "2", "3", "4", "5", "6", "7", "8", "9">>

\* str(n) for a non-negative integer
RECURSIVE IntToStr(_)
IntToStr(n) ==
    IF n < 10 THEN Digits[n + 1]
    ELSE IntToStr(n \div 10) \o Digits[(n % 10) + 1]

(***************************************************************************)
(* The values clargs.threads can hold: the integer default, None (the      *)
(* const of a nargs='?' option given without a value), or the string       *)
(* taken from the command line.                                            *)
(***************************************************************************)
IntVal(n) == [kind |-> "int", n |-> n]
NoneVal == [kind |-> "none"]
StrVal(s) == [kind |-> "str", s |-> s]

\* f"{value}": the formatting an f-string applies to clargs.threads
FormatValue(v) ==
    CASE v.kind = "int" -> IntToStr(v.n)
      [] v.kind = "none" -> "None"
      [] v.kind = "str" -> v.s

(***************************************************************************)
(* The parser built by the add_argument calls (plus argparse's own -h).    *)
(***************************************************************************)
OptionStrings ==
    [dest : {"help"}, opt : {"-h", "--help"}]
    \cup [dest : {"configure"}, opt : {"-c", "--configure"}]
    \cup [dest : {"release"}, opt : {"-r", "--release"}]
    \cup [dest : {"install"}, opt : {"-i", "--install"}]
    \cup [dest : {"threads"}, opt : {"-t", "--threads"}]
    \cup [dest : {"example"}, opt : {"--include-example"}]

IsOptionString(s) == \E o \in OptionStrings : o.opt = s

DestOf(s) == (CHOOSE o \in OptionStrings : o.opt = s).dest

\* nargs of an action: 0 for store_true and help, '?' (at most one) for threads
TakesValue(dest) == dest = "threads"

\* the namespace before any option is seen: every default= of the script
DefaultNamespace ==
    [configure |-> FALSE, release |-> FALSE, install |-> FALSE,
     threads |-> IntVal(1), example |-> FALSE]

\* an absent explicit argument (None); a present one is <<text>>
NoArg == <<>>
Explicit(s) == <<s>>

Positional == [kind |-> "A"]
Unknown == [kind |-> "U"]
Ambiguous == [kind |-> "E"]
Optional(dest, opt, explicit) ==
    [kind |-> "O", dest |-> dest, opt |-> opt, explicit |-> explicit]

IsDigit(c) == \E i \in 1..10 : Digits[i] = c

RECURSIVE AllDigitsFrom(_, _)
AllDigitsFrom(s, i) ==
    i > Len(s) \/ (IsDigit(Char(s, i)) /\ AllDigitsFrom(s, i + 1))

\* argparse's negative-number matcher restricted to integers: -<digits>
LooksNegativeNumber(s) ==
    Len(s) >= 2 /\ Char(s, 1) = "-" /\ AllDigitsFrom(s, 2)

\* ArgumentParser._get_option_tuples: abbreviations of long options and
\* short options with an attached value
OptionTuples(arg) ==
    IF Char(arg, 2) = "-"
    THEN LET eq == Find(arg, "=")
             prefix == IF eq > 0 THEN SubSeq(arg, 1, eq - 1) ELSE arg
             explicit == IF eq > 0 THEN Explicit(SubSeq(arg, eq + 1, Len(arg)))
                         ELSE NoArg
         IN  {Optional(o.dest, o.opt, explicit) :
                 o \in {p \in OptionStrings : StartsWith(p.opt, prefix)}}
    ELSE {Optional(o.dest, o.opt, Explicit(SubSeq(arg, 3, Len(arg)))) :
             o \in {p \in OptionStrings : p.opt = SubSeq(arg, 1, 2)}}
         \cup {Optional(o.dest, o.opt, NoArg) :
             o \in {p \in OptionStrings :
                       p.opt # SubSeq(arg, 1, 2) /\ StartsWith(p.opt, arg)}}

\* ArgumentParser._parse_optional: what one command-line token is
ParseOptional(arg) ==
    IF arg = "" THEN Positional
    ELSE IF Char(arg, 1) # "-" THEN Positional
    ELSE IF IsOptionString(arg) THEN Optional(DestOf(arg), arg, NoArg)
    ELSE IF Len(arg) = 1 THEN Positional
    ELSE LET eq == Find(arg, "=")
             before == SubSeq(arg, 1, eq - 1)
         IN  IF eq > 0 /\ IsOptionString(before)
             THEN Optional(DestOf(before), before,
                           Explicit(SubSeq(arg, eq + 1, Len(arg))))
             ELSE LET tuples == OptionTuples(arg)
                  IN  IF Cardinality(tuples) > 1 THEN Ambiguous
                      ELSE IF Cardinality(tuples) = 1
                           THEN CHOOSE t \in tuples : TRUE
                      ELSE IF LooksNegativeNumber(arg) THEN Positional
                      ELSE IF Find(arg, " ") > 0 THEN Positional
                      ELSE Unknown

\* outcomes of parse_args
UsageError == [outcome |-> "usage_error"]
HelpExit == [outcome |-> "help"]
Parsed(ns) == [outcome |-> "ok", ns |-> ns]

\* the store_true / store action of one option
TakeAction(ns, dest, value) ==
    IF dest = "threads" THEN [ns EXCEPT !.threads = value]
    ELSE [ns EXCEPT ![dest] = TRUE]

RECURSIVE ConsumeArgs(_, _, _, _)
RECURSIVE ConsumeOptional(_, _, _, _, _, _, _, _)

\* consume_optional: one token that names a known option, with the
\* single-dash options concatenated behind it (-cr is -c -r)
ConsumeOptional(args, i, dest, opt, explicit, ns, extras, help) ==
    IF explicit # NoArg
    THEN IF ~TakesValue(dest) /\ Char(opt, 2) # "-" /\ explicit[1] # ""
         THEN LET next == "-" \o Char(explicit[1], 1)
                  rest == IF Len(explicit[1]) > 1
                          THEN Explicit(SubSeq(explicit[1], 2, Len(explicit[1])))
                          ELSE NoArg
                  ns1 == IF dest = "help" THEN ns ELSE TakeAction(ns, dest, NoneVal)
              IN  IF IsOptionString(next)
                  THEN ConsumeOptional(args, i, DestOf(next), next, rest, ns1,
                                       extras, help \/ dest = "help")
                  ELSE UsageError
         ELSE IF TakesValue(dest)
         THEN IF help THEN HelpExit
              ELSE ConsumeArgs(args, i + 1,
                               TakeAction(ns, dest, StrVal(explicit[1])), extras)
         ELSE UsageError
    ELSE IF help \/ dest = "help" THEN HelpExit
    ELSE IF TakesValue(dest)
    THEN IF i < Len(args) /\ ParseOptional(args[i + 1]).kind = "A"
         THEN ConsumeArgs(args, i + 2,
                          TakeAction(ns, dest, StrVal(args[i + 1])), extras)
         ELSE ConsumeArgs(args, i + 1, TakeAction(ns, dest, NoneVal), extras)
    ELSE ConsumeArgs(args, i + 1, TakeAction(ns, dest, NoneVal), extras)

\* variant: leftover arguments are dropped instead of rejected
ConsumeArgsLenient(args, i, ns, extras) ==
    IF i > Len(args)
    THEN Parsed(ns)
    ELSE LET c == ParseOptional(args[i])
         IN  IF c.kind = "O"
             THEN ConsumeOptional(args, i, c.dest, c.opt, c.explicit, ns,
                                  extras, FALSE)
             ELSE ConsumeArgs(args, i + 1, ns, TRUE)

\* the consume loop of _parse_known_args followed by parse_args' check for
\* leftover arguments; the script declares no positional argument, so every
\* positional and every unknown option is left over
ConsumeArgs(args, i, ns, extras) ==
    IF i > Len(args)
    THEN IF extras THEN UsageError ELSE Parsed(ns)
    ELSE LET c == ParseOptional(args[i])
         IN  IF c.kind = "O"
             THEN ConsumeOptional(args, i, c.dest, c.opt, c.explicit, ns,
                                  extras, FALSE)
             ELSE ConsumeArgs(args, i + 1, ns, TRUE)

\* parser.parse_args(): ambiguous abbreviations are rejected while the
\* tokens are classified, before any option takes effect
ParseArgs(args) ==
    IF \E i \in 1..Len(args) : ParseOptional(args[i]).kind = "E"
    THEN UsageError
    ELSE ConsumeArgs(args, 1, DefaultNamespace, FALSE)

(***************************************************************************)
(* Command lines the exploration starts from: every sequence of at most    *)
(* MaxArgs of these tokens.                                                *)
(***************************************************************************)
Tokens ==
    {"-c", "-r", "-i", "-t", "--include-example", "--threads=8", "4",
     "--bogus", "--release=1", "-h"}

RECURSIVE SeqsUpTo(_, _)
SeqsUpTo(S, n) ==
    IF n = 0 THEN {<<>>}
    ELSE LET shorter == SeqsUpTo(S, n - 1)
         IN  shorter \cup {Append(q, t) : q \in {r \in shorter : Len(r) = n - 1},
                                          t \in S}

\* what a child may hand to one write() on its stdout/stderr
Chunks == {"a\n", "b"}

\* exit statuses a child may end with
ExitCodes == {0, 1}

(***************************************************************************)
(* State.                                                                  *)
(***************************************************************************)
VARIABLES
    argv,       \* sys.argv[1:]
    pc,         \* the statement the script is at
    clargs,     \* the namespace parse_args returned
    arguments,  \* the arguments list
    procs,      \* every child started by Popen, in start order
    line,       \* the loop variable of the output loops
    console     \* everything print() has written so far

vars == <<argv, pc, clargs, arguments, procs, line, console>>

\* the index in procs of the child started at a call site, 0 if none
ProcAt(site) ==
    IF \E i \in 1..Len(procs) : procs[i].site = site
    THEN CHOOSE i \in 1..Len(procs) : procs[i].site = site
    ELSE 0

(***************************************************************************)
(* The command lines the script builds.                                    *)
(***************************************************************************)
\* variant: the release flag is not consulted
ConfigureArgumentsDebugOnly(ns) ==
    <<"cmake", "-E", "env", "CLICOLOR_FORCE=1",
      "cmake", "-G", "\"Unix Makefiles\"", "-DCMAKE_BUILD_TYPE=Debug">>
    \o (IF ns.example THEN <<"-DMALUNAL_TOOLING_BUILD_EXAMPLE=ON">> ELSE <<>>)
    \o <<"-S", ".", "-B", "build">>

\* variant: the example flag is not consulted
ConfigureArgumentsNoExample(ns) ==
    <<"cmake", "-E", "env", "CLICOLOR_FORCE=1",
      "cmake", "-G", "\"Unix Makefiles\"",
      "-DCMAKE_BUILD_TYPE=" \o (IF ns.release THEN "Release" ELSE "Debug")>>
    \o <<"-S", ".", "-B", "build">>

\* cmake_options and the arguments of the configure invocation
ConfigureArguments(ns) ==
    LET build_type == IF ns.release THEN "Release" ELSE "Debug"
        cmake_options ==
            <<"cmake", "-E", "env", "CLICOLOR_FORCE=1",
              "cmake", "-G", "\"Unix Makefiles\"">>
            \o <<"-DCMAKE_BUILD_TYPE=" \o build_type>>
            \o (IF ns.example THEN <<"-DMALUNAL_TOOLING_BUILD_EXAMPLE=ON">>
                ELSE <<>>)
    IN  cmake_options \o <<"-S", ".", "-B", "build">>

\* variant: the job count is always the default
BuildArgumentsDefaultJobs(ns) ==
    <<"cmake", "-E", "env", "CLICOLOR_FORCE=1",
      "cmake", "--build", "build", "--", "-j1">>

\* the tokens the build step appends to arguments
BuildArguments(ns) ==
    <<"cmake", "-E", "env", "CLICOLOR_FORCE=1",
      "cmake", "--build", "build", "--", "-j" \o FormatValue(ns.threads)>>

\* variant: the list is not cleared
KeepArguments(args) == args

\* arguments.clear() after the configure block
ClearArguments(args) == <<>>

\* subprocess.Popen(" ".join(args), shell=True, stdout=PIPE, stderr=STDOUT):
\* a running child whose combined output goes to a fresh pipe
Popen(site, args) ==
    [site |-> site, args |-> args, cmd |-> Join(args),
     written |-> "", pipe |-> "", open |-> TRUE, alive |-> TRUE,
     status |-> <<>>, writes |-> 0]

\* variant: the with block is left without waiting for the child
ReapedNoWait(p) == TRUE

\* variant: the with block is only left after a child that succeeded
ReapedOnSuccess(p) == ~p.alive /\ p.status = <<0>>

\* Popen.__exit__: the with block is left once wait() has reaped the child
Reaped(p) == ~p.alive

\* variant: the line is printed with its own newline
PrintedNoStrip(l) == l \o "\n"

\* the text print(line.rstrip("\n")) adds to the console
Printed(l) == RStripNewline(l) \o "\n"

(***************************************************************************)
(* The script.                                                             *)
(***************************************************************************)
Init ==
    /\ argv \in SeqsUpTo(Tokens, MaxArgs)
    /\ pc = "parse"
    /\ clargs = DefaultNamespace
    /\ arguments = <<>>
    /\ procs = <<>>
    /\ line = ""
    /\ console = ""

\* clargs = parser.parse_args(); arguments = []
Parse ==
    /\ pc = "parse"
    /\ LET r == ParseArgs(argv)
       IN  IF r.outcome = "ok"
           THEN pc' = "main" /\ clargs' = r.ns
           ELSE pc' = r.outcome /\ clargs' = clargs
    /\ arguments' = <<>>
    /\ UNCHANGED <<argv, procs, line, console>>

\* if clargs.configure: build the configure command line and start it
ConfigureOpen ==
    /\ pc = "main"
    /\ clargs.configure = TRUE
    /\ arguments' = arguments \o ConfigureArguments(clargs)
    /\ procs' = Append(procs, Popen("configure", arguments'))
    /\ pc' = "configure_read"
    /\ UNCHANGED <<argv, clargs, line, console>>

\* variant: the configure block may be skipped whatever the flag
ConfigureSkipAlways ==
    /\ pc = "main"
    /\ pc' = "build_open"
    /\ UNCHANGED <<argv, clargs, arguments, procs, line, console>>

\* the configure block is skipped
ConfigureSkip ==
    /\ pc = "main"
    /\ clargs.configure # TRUE
    /\ pc' = "build_open"
    /\ UNCHANGED <<argv, clargs, arguments, procs, line, console>>

\* one iteration step of "for line in process.stdout": take the next line
\* from the pipe, or leave the loop at end of file
ReadLine(site) ==
    /\ pc = site \o "_read"
    /\ LET i == ProcAt(site)
           p == procs[i]
           nl == Find(p.pipe, "\n")
       IN  IF nl > 0
           THEN /\ line' = SubSeq(p.pipe, 1, nl)
                /\ procs' = [procs EXCEPT
                               ![i].pipe = SubSeq(p.pipe, nl + 1, Len(p.pipe))]
                /\ pc' = site \o "_print"
           ELSE /\ ~p.open
                /\ IF p.pipe # ""
                   THEN /\ line' = p.pipe
                        /\ procs' = [procs EXCEPT ![i].pipe = ""]
                        /\ pc' = site \o "_print"
                   ELSE /\ pc' = site \o "_exit"
                        /\ UNCHANGED <<line, procs>>
    /\ UNCHANGED <<argv, clargs, arguments, console>>

\* print(line.rstrip("\n"))
PrintLine(site) ==
    /\ pc = site \o "_print"
    /\ console' = console \o Printed(line)
    /\ pc' = site \o "_read"
    /\ UNCHANGED <<argv, clargs, arguments, procs, line>>

ConfigureReadLine == ReadLine("configure")

ConfigurePrintLine == PrintLine("configure")

\* end of the configure with block, then arguments.clear()
ConfigureExit ==
    /\ pc = "configure_exit"
    /\ Reaped(procs[ProcAt("configure")])
    /\ arguments' = ClearArguments(arguments)
    /\ pc' = "build_open"
    /\ UNCHANGED <<argv, clargs, procs, line, console>>

\* build the build command line and start it
BuildOpen ==
    /\ pc = "build_open"
    /\ arguments' = arguments \o BuildArguments(clargs)
    /\ procs' = Append(procs, Popen("build", arguments'))
    /\ pc' = "build_read"
    /\ UNCHANGED <<argv, clargs, line, console>>

BuildReadLine == ReadLine("build")

BuildPrintLine == PrintLine("build")

\* end of the build with block: the script ends
BuildExit ==
    /\ pc = "build_exit"
    /\ Reaped(procs[ProcAt("build")])
    /\ pc' = "done"
    /\ UNCHANGED <<argv, clargs, arguments, procs, line, console>>

(***************************************************************************)
(* The children (the environment of the script).                          *)
(***************************************************************************)
\* a child writes a chunk to its stdout/stderr
ChildWrite ==
    \E i \in 1..Len(procs), c \in Chunks :
        /\ procs[i].alive /\ procs[i].open
        /\ procs[i].writes < MaxWrites
        /\ procs' = [procs EXCEPT ![i].written = @ \o c,
                                  ![i].pipe = @ \o c,
                                  ![i].writes = @ + 1]
        /\ UNCHANGED <<argv, pc, clargs, arguments, line, console>>

\* a child closes its stdout/stderr and keeps running
ChildClose ==
    \E i \in 1..Len(procs) :
        /\ procs[i].alive /\ procs[i].open
        /\ procs' = [procs EXCEPT ![i].open = FALSE]
        /\ UNCHANGED <<argv, pc, clargs, arguments, line, console>>

\* a child exits with some status
ChildExit ==
    \E i \in 1..Len(procs), code \in ExitCodes :
        /\ procs[i].alive
        /\ procs' = [procs EXCEPT ![i].alive = FALSE,
                                  ![i].open = FALSE,
                                  ![i].status = <<code>>]
        /\ UNCHANGED <<argv, pc, clargs, arguments, line, console>>

Next ==
    \/ Parse
    \/ ConfigureOpen
    \/ ConfigureSkip
    \/ ConfigureReadLine
    \/ ConfigurePrintLine
    \/ ConfigureExit
    \/ BuildOpen
    \/ BuildReadLine
    \/ BuildPrintLine
    \/ BuildExit
    \/ ChildWrite
    \/ ChildClose
    \/ ChildExit

Spec == Init /\ [][Next]_vars

(***************************************************************************)
(* A second specification for progress: the script is a sequential process *)
(* that takes its next step whenever it is not blocked on a child; nothing *)
(* is assumed of the children.                                             *)
(***************************************************************************)
FairTokens == {"-c", "--bogus"}

InitFair ==
    /\ argv \in SeqsUpTo(FairTokens, MaxArgs)
    /\ pc = "parse"
    /\ clargs = DefaultNamespace
    /\ arguments = <<>>
    /\ procs = <<>>
    /\ line = ""
    /\ console = ""

ScriptStep ==
    \/ Parse
    \/ ConfigureOpen
    \/ ConfigureSkip
    \/ ConfigureReadLine
    \/ ConfigurePrintLine
    \/ ConfigureExit
    \/ BuildOpen
    \/ BuildReadLine
    \/ BuildPrintLine
    \/ BuildExit

FairSpec == InitFair /\ [][Next]_vars /\ WF_vars(ScriptStep)

(***************************************************************************)
(* Vocabulary of the properties.                                           *)
(***************************************************************************)
HasToken(args, t) == \E k \in 1..Len(args) : args[k] = t

EndsWith(args, tail) ==
    Len(args) >= Len(tail)
    /\ SubSeq(args, Len(args) - Len(tail) + 1, Len(args)) = tail

\* cmake -G ... -S . -B build
IsConfigureInvocation(p) ==
    HasToken(p.args, "-G") /\ EndsWith(p.args, <<"-S", ".", "-B", "build">>)

\* cmake --build build ...
IsBuildInvocation(p) == HasToken(p.args, "--build")

ConfigureInvocations == {i \in 1..Len(procs) : IsConfigureInvocation(procs[i])}

BuildInvocations == {i \in 1..Len(procs) : IsBuildInvocation(procs[i])}

\* the flags were accepted and the script is past parse_args
FlagsAccepted == pc \notin {"parse", "usage_error", "help"}

\* the script is past the point where the configure block is entered or not
PastConfigureChoice == FlagsAccepted /\ pc # "main"

\* the script is past the start of the build child
PastBuildOpen == pc \in {"build_read", "build_print", "build_exit", "done"}

TokensWithPrefix(args, prefix) ==
    {k \in 1..Len(args) : StartsWith(args[k], prefix)}

\* the COUNT the command line supplies, read off argv: <<COUNT>> for the
\* last -t/--threads when a value comes with it, <<>> when the option is
\* absent or its last occurrence has no value
NamesThreads(t) ==
    t = "-t" \/ t = "--threads" \/ StartsWith(t, "--threads=")

SuppliedCount ==
    LET at == {k \in 1..Len(argv) : NamesThreads(argv[k])}
    IN  IF at = {} THEN <<>>
        ELSE LET k == CHOOSE m \in at : \A n \in at : n <= m
                 t == argv[k]
             IN  IF StartsWith(t, "--threads=")
                 THEN <<SubSeq(t, Len("--threads=") + 1, Len(t))>>
                 ELSE IF k < Len(argv) /\ Char(argv[k + 1], 1) # "-"
                      THEN <<argv[k + 1]>>
                      ELSE <<>>

LastToken(args) == args[Len(args)]

\* a token that is an unrecognized flag, or a value attached to a flag
\* that takes none
UnrecognizedFlag(t) == ParseOptional(t).kind = "U"

MalformedValue(t) ==
    LET c == ParseOptional(t)
    IN  c.kind = "O" /\ ~TakesValue(c.dest) /\ c.explicit # NoArg
        /\ Char(c.opt, 2) = "-"

BadCommandLine ==
    \E k \in 1..Len(argv) : UnrecognizedFlag(argv[k]) \/ MalformedValue(argv[k])

HelpRequested ==
    \E k \in 1..Len(argv) : ParseOptional(argv[k]).kind = "O"
                            /\ ParseOptional(argv[k]).dest = "help"

\* what the console shows of a stretch of child output: the same text, with
\* the newline print() supplies when the last line has none
Shown(s) ==
    IF s = "" \/ Char(s, Len(s)) = "\n" THEN s ELSE s \o "\n"

\* the part of a child's output the script has taken out of the pipe
Consumed(p) == SubSeq(p.written, 1, Len(p.written) - Len(p.pipe))

RECURSIVE ShownUpTo(_)
ShownUpTo(n) ==
    IF n = 0 THEN "" ELSE ShownUpTo(n - 1) \o Shown(Consumed(procs[n]))

RECURSIVE WrittenUpTo(_)
WrittenUpTo(n) ==
    IF n = 0 THEN "" ELSE WrittenUpTo(n - 1) \o Shown(procs[n].written)

\* the line read and not yet printed
HeldLine ==
    IF pc \in {"configure_print", "build_print"} THEN Printed(line) ELSE ""

(***************************************************************************)
(* Properties.                                                             *)
(***************************************************************************)

\* C1: for accepted flags the configure invocation is issued if and only if
\* the configure flag is set: never with the flag unset, never more than
\* once, and exactly once as soon as the script is past the configure test.
C1_ConfigureIffFlag ==
    /\ Cardinality(ConfigureInvocations) <= 1
    /\ ~FlagsAccepted => ConfigureInvocations = {}
    /\ (FlagsAccepted /\ ~clargs.configure) => ConfigureInvocations = {}
    /\ (PastConfigureChoice /\ clargs.configure)
           => Cardinality(ConfigureInvocations) = 1
    /\ pc = "done" => (ConfigureInvocations # {} <=> HasToken(argv, "-c"))

C1_Witness ==
    /\ pc = "done"
    /\ clargs.configure
    /\ Cardinality(ConfigureInvocations) = 1

\* C2: the build invocation is issued exactly once in a run with accepted
\* flags, and the build child is started only when the configure child has
\* exited and its pipe is drained; two children are never alive together.
C2_BuildOnceAfterConfigure ==
    /\ Cardinality(BuildInvocations) <= 1
    /\ PastBuildOpen <=> Cardinality(BuildInvocations) = 1
    /\ Cardinality({i \in 1..Len(procs) : procs[i].alive}) <= 1
    /\ \A b \in BuildInvocations : \A c \in ConfigureInvocations :
           /\ c < b
           /\ ~procs[c].alive
           /\ ~procs[c].open
           /\ procs[c].pipe = ""

C2_Witness ==
    /\ ConfigureInvocations # {}
    /\ \E b \in BuildInvocations : procs[b].alive
    /\ \E c \in ConfigureInvocations : procs[c].written # ""

\* C3: a configure invocation carries exactly one -DCMAKE_BUILD_TYPE=
\* argument, Release when the release flag is set and Debug otherwise.
C3_BuildType ==
    \A c \in ConfigureInvocations :
        LET at == TokensWithPrefix(procs[c].args, "-DCMAKE_BUILD_TYPE=")
        IN  /\ Cardinality(at) = 1
            /\ \A k \in at :
                   procs[c].args[k] =
                       IF clargs.release THEN "-DCMAKE_BUILD_TYPE=Release"
                       ELSE "-DCMAKE_BUILD_TYPE=Debug"

C3_Witness ==
    /\ ConfigureInvocations # {}
    /\ clargs.release
    /\ pc = "done"

\* C4: a configure invocation carries -DMALUNAL_TOOLING_BUILD_EXAMPLE=ON
\* if and only if --include-example was given.
C4_ExampleArgument ==
    \A c \in ConfigureInvocations :
        /\ HasToken(procs[c].args, "-DMALUNAL_TOOLING_BUILD_EXAMPLE=ON")
               <=> clargs.example
        /\ clargs.example <=> HasToken(argv, "--include-example")

C4_Witness ==
    /\ ConfigureInvocations # {}
    /\ clargs.example
    /\ pc = "build_open"

\* C5: when the command line supplies a COUNT for -t/--threads, the last
\* argument of the build invocation is -j followed by that text unchanged,
\* with or without a configure invocation before it.
C5_ThreadsVerbatim ==
    SuppliedCount # <<>> =>
        \A b \in BuildInvocations :
            /\ LastToken(procs[b].args) = "-j" \o SuppliedCount[1]
            /\ Cardinality(TokensWithPrefix(procs[b].args, "-j")) = 1

C5_Witness ==
    /\ BuildInvocations # {}
    /\ ConfigureInvocations # {}
    /\ SuppliedCount = <<"8">>

\* C6: when the command line supplies no COUNT (no -t/--threads, or the
\* option without a value) the build invocation's job argument is -j1.
C6_DefaultThreads ==
    SuppliedCount = <<>> =>
        \A b \in BuildInvocations : LastToken(procs[b].args) = "-j1"

C8_StatusIgnored ==
    /\ [](Cardinality(ConfigureInvocations) <= 1
          /\ Cardinality(BuildInvocations) <= 1
          /\ Len(procs) <= 2)
    /\ \A code \in ExitCodes :
           /\ (\E c \in ConfigureInvocations : procs[c].status = <<code>>)
                  ~> (BuildInvocations # {})
           /\ (\E b \in BuildInvocations : procs[b].status = <<code>>)
                  ~> (pc = "done")

C8_Witness ==
    /\ pc = "done"
    /\ \E c \in ConfigureInvocations : procs[c].status = <<1>>
    /\ \E b \in BuildInvocations : procs[b].status = <<1>>

\* C9: the console is at every moment exactly the child output consumed so
\* far, line for line and in order, less at most the one line that was read
\* and is about to be printed; at the end it is the whole output of the
\* configure child followed by the whole output of the build child.
C9_LineByLine ==
    /\ console \o HeldLine = ShownUpTo(Len(procs))
    /\ pc \in {"configure_print", "build_print"}
           => Find(line, "\n") \in {0, Len(line)}
    /\ pc = "done" => console = WrittenUpTo(Len(procs))

C9_Witness ==
    /\ pc = "done"
    /\ Len(procs) = 2
    /\ procs[1].written = "ba\n"
    /\ procs[2].written = "a\nb"

====
